---- MODULE Spec2Model ----
(***************************************************************************)
(* Model of report_generator.py: three HTTP fetches, a three-sheet         *)
(* workbook, an email with the workbook and (conditionally) error.log.     *)
(*                                                                         *)
(* Two specifications share the operators that model the functions:        *)
(*   Spec      the main flow (lines 181-252), run after run;               *)
(*   SpecPipe  fetch_api_data followed by write_sheet_from_json on inputs  *)
(*             drawn from bounded sets (any response, any field mapping).  *)
(*                                                                         *)
(* Data abstraction.  A JSON/Python value is a tagged record:              *)
(*   [t |-> "list", v |-> <<...>>], [t |-> "dict", v |-> function],        *)
(*   [t |-> "null"], [t |-> "int"].  Scalar field values are strings and   *)
(*   None is Python's None.  An Error Entry keeps level and context; its   *)
(*   timestamp and str(exc) are left out.  The error log is the number of  *)
(*   entries it held when the process started (logPrior) followed by the   *)
(*   entries this process appended (logged): the program reads only the    *)
(*   file's existence and size.  Header styling and column autosizing      *)
(*   (lines 52-73, 84, 93) change no cell value and are left out.          *)
(***************************************************************************)
EXTENDS Integers, Sequences, FiniteSets

VARIABLES pc, run, API_KEY, headers, requests, res, users, posts, todos,
          logExists, logPrior, logged, wb, reportOnDisk, body_lines,
          attachments, smtp, outbox, exitCode,
          p_pc, p_url, p_resp, p_mapping, p_ret, p_raised, p_log, p_ws

mainVars == <<pc, run, API_KEY, headers, requests, res, users, posts, todos,
              logExists, logPrior, logged, wb, reportOnDisk, body_lines,
              attachments, smtp, outbox, exitCode>>

pipeVars == <<p_pc, p_url, p_resp, p_mapping, p_ret, p_raised, p_log, p_ws>>

vars == <<mainVars, pipeVars>>

\* ---------------------------------------------------------------- bounds

MaxRuns == 2

MaxItems == 2

MaxCols == 2

\* ------------------------------------------------------------- constants

LOG_FILE == "error.log"

REPORT_FILE == "daily_report.xlsx"

API1_URL == "https://jsonplaceholder.typicode.com/users"

API2_URL == "https://jsonplaceholder.typicode.com/posts"

API3_URL == "https://jsonplaceholder.typicode.com/todos"

None == "None"

\* ------------------------------------------------------- JSON / Python data

List(s) == [t |-> "list", v |-> s]

Dict(f) == [t |-> "dict", v |-> f]

Null == [t |-> "null"]

Int1 == [t |-> "int"]

Unset == [t |-> "unset"]

EmptyList == List(<< >>)

Malformed == [t |-> "malformed"]

RecAnn == [id |-> "1", name |-> "Ann", username |-> "a", email |-> "a@x.com",
           userId |-> "7", title |-> "t1", completed |-> "true"]

RecBob == [id |-> "2", name |-> "Bob", title |-> None]

RecNone == [other |-> "x"]

IsRecordList(d) == d.t = "list" /\ \A i \in DOMAIN d.v : d.v[i].t = "dict"

\* ------------------------------------------------------------ the error log

log_error(context) == [level |-> "ERROR", context |-> context]

ApiContext(url) == <<"API call failed for", url>>

EmailContext == <<"Email sending failed">>

LogSize == logPrior + Len(logged)

\* ------------------------------------------------------------------ fetcher

\* requests.Response.raise_for_status: raises for 400 <= status < 600.
raise_for_status(status) == 400 <= status /\ status < 600

Failure(url) == [ret |-> EmptyList, raised |-> FALSE,
                 log |-> << log_error(ApiContext(url)) >>]

\* Mutant: only the HTTP and transport errors are caught; a body that is
\* not JSON raises out of the call.
fetch_api_data_parse_uncaught(url, resp) ==
    IF resp.transport # "ok" THEN Failure(url)
    ELSE IF raise_for_status(resp.status) THEN Failure(url)
    ELSE IF resp.body.t = "malformed"
         THEN [ret |-> Unset, raised |-> TRUE, log |-> << >>]
    ELSE IF resp.body.t = "dict"
         THEN [ret |-> List(<< resp.body >>), raised |-> FALSE, log |-> << >>]
         ELSE [ret |-> resp.body, raised |-> FALSE, log |-> << >>]

fetch_api_data(url, resp) ==
    IF resp.transport # "ok" THEN Failure(url)
    ELSE IF raise_for_status(resp.status) THEN Failure(url)
    ELSE IF resp.body.t = "malformed" THEN Failure(url)
    ELSE IF resp.body.t = "dict"
         THEN [ret |-> List(<< resp.body >>), raised |-> FALSE, log |-> << >>]
         ELSE [ret |-> resp.body, raised |-> FALSE, log |-> << >>]

\* -------------------------------------------------------------- sheet writer

Headers(field_mapping) == [j \in 1..Len(field_mapping) |-> field_mapping[j][1]]

Get(item, key) == IF key \in DOMAIN item.v THEN item.v[key] ELSE None

\* Mutant: a cell is appended only for the mapped keys the record has.
RowSkipMissing(item, field_mapping) ==
    LET cell(j) == Get(item, field_mapping[j][2])
        F[j \in 0..Len(field_mapping)] ==
            IF j = 0 THEN << >>
            ELSE IF field_mapping[j][2] \in DOMAIN item.v
                 THEN Append(F[j - 1], cell(j)) ELSE F[j - 1]
    IN  F[Len(field_mapping)]

Row(item, field_mapping) ==
    [j \in 1..Len(field_mapping) |-> Get(item, field_mapping[j][2])]

\* Index of the first element whose .get raises (not a dict); Len+1 if none.
FirstBad(s) ==
    IF \E i \in DOMAIN s : s[i].t # "dict"
    THEN CHOOSE i \in DOMAIN s :
             s[i].t # "dict" /\ \A k \in 1..(i - 1) : s[k].t = "dict"
    ELSE Len(s) + 1

\* Mutant: the data rows are written in reverse order.
write_sheet_reversed(data, field_mapping) ==
    IF data.t # "list"
    THEN [rows |-> << Headers(field_mapping) >>, raised |-> TRUE]
    ELSE LET bad == FirstBad(data.v)
             n   == bad - 1
         IN  [rows |-> << Headers(field_mapping) >> \o
                       [i \in 1..n |-> Row(data.v[n + 1 - i], field_mapping)],
              raised |-> bad <= Len(data.v)]

\* data is what fetch_api_data returns: a list, or a JSON scalar (iterating
\* it raises TypeError after the header row was appended).
write_sheet_from_json(data, field_mapping) ==
    IF data.t # "list"
    THEN [rows |-> << Headers(field_mapping) >>, raised |-> TRUE]
    ELSE LET bad == FirstBad(data.v)
         IN  [rows |-> << Headers(field_mapping) >> \o
                       [i \in 1..(bad - 1) |-> Row(data.v[i], field_mapping)],
              raised |-> bad <= Len(data.v)]

\* ------------------------------------------------------------ report builder

user_mapping == << <<"ID", "id">>, <<"Name", "name">>,
                   <<"Username", "username">>, <<"Email", "email">> >>

post_mapping == << <<"ID", "id">>, <<"User ID", "userId">>, <<"Title", "title">> >>

todo_mapping == << <<"ID", "id">>, <<"User ID", "userId">>, <<"Title", "title">>,
                   <<"Completed", "completed">> >>

NoWorkbook == << >>

Sheet(title, w) == [title |-> title, rows |-> w.rows]

\* Mutant: a worksheet is created only for a source that has records.
create_report_skip_empty(u, p, t) ==
    LET s1 == write_sheet_from_json(u, user_mapping)
        s2 == write_sheet_from_json(p, post_mapping)
        s3 == write_sheet_from_json(t, todo_mapping)
        Opt(title, w) == IF Len(w.rows) > 1 THEN << Sheet(title, w) >> ELSE << >>
    IN  IF s1.raised \/ s2.raised \/ s3.raised
        THEN [raised |-> TRUE, wb |-> NoWorkbook]
        ELSE [raised |-> FALSE,
              wb |-> << Sheet("Users", s1) >> \o Opt("Posts", s2) \o Opt("Todos", s3)]

create_report_excel(u, p, t) ==
    LET s1 == write_sheet_from_json(u, user_mapping)
        s2 == write_sheet_from_json(p, post_mapping)
        s3 == write_sheet_from_json(t, todo_mapping)
    IN  IF s1.raised \/ s2.raised \/ s3.raised
        THEN [raised |-> TRUE, wb |-> NoWorkbook]
        ELSE [raised |-> FALSE,
              wb |-> << Sheet("Users", s1), Sheet("Posts", s2), Sheet("Todos", s3) >>]

\* ------------------------------------------------------------------ notifier

SmtpOutcomes == {"ok", "connect", "starttls", "login", "send_message", "quit"}

\* The message reached the server: send_message returned (quit may still raise).
Delivered(outcome) == outcome \in {"ok", "quit"}

\* Mutant: a missing attachment is reported as an error.
send_email_log_missing(body, files, present, outcome) ==
    LET OnDiskNow(path) == path \in present
        parts == SelectSeq(files, OnDiskNow)
        msg   == [subject |-> "Daily Multi-API Report", body |-> body, files |-> parts]
    IN  [outbox |-> IF Delivered(outcome) THEN << msg >> ELSE << >>,
         raised |-> FALSE,
         log    |-> (IF Len(parts) < Len(files)
                     THEN << log_error(EmailContext) >> ELSE << >>)
                    \o (IF outcome = "ok" THEN << >>
                        ELSE << log_error(EmailContext) >>)]

\* present: the paths that exist on disk when the attachments are read.
send_email_with_attachments(body, files, present, outcome) ==
    LET OnDiskNow(path) == path \in present
        parts == SelectSeq(files, OnDiskNow)
        msg   == [subject |-> "Daily Multi-API Report", body |-> body, files |-> parts]
    IN  [outbox |-> IF Delivered(outcome) THEN << msg >> ELSE << >>,
         raised |-> FALSE,
         log    |-> IF outcome = "ok" THEN << >>
                    ELSE << log_error(EmailContext) >>]

\* ----------------------------------------------------------------- main flow

ApiKeys == {None, "", "secret"}

\* Mutant: "if API_KEY is not None".
BuildHeadersIfNotNone(key) ==
    IF key # None THEN { <<"Authorization", <<"Bearer", key>> >> }
    ELSE {}

\* if API_KEY: headers["Authorization"] = f"Bearer {API_KEY}"
BuildHeaders(key) ==
    IF key # None /\ key # "" THEN { <<"Authorization", <<"Bearer", key>> >> }
    ELSE {}

Statuses == {200, 300, 404, 500}

Bodies == { EmptyList, List(<< Dict(RecAnn), Dict(RecBob) >>), Dict(RecAnn),
            Null, List(<< Int1 >>), Malformed }

Responses ==
    { [transport |-> tr, status |-> 0, body |-> Malformed] :
          tr \in {"timeout", "connection_error"} }
    \cup { [transport |-> "ok", status |-> st, body |-> b] :
               st \in Statuses, b \in Bodies }

NoResp == [transport |-> "none", status |-> 0, body |-> Malformed]

Warning == <<"Some errors were logged during execution.">>

OnDisk(path) == IF path = LOG_FILE THEN logExists
                ELSE IF path = REPORT_FILE THEN reportOnDisk
                ELSE FALSE

FilesOnDisk == { path \in {LOG_FILE, REPORT_FILE} : OnDisk(path) }

LogNonEmpty == logExists /\ LogSize > 0

PyLen(d) == Len(d.v)

ComposedBody ==
    << <<"Hello,">>, <<"">>, <<"Here is your automated multi-API report.">>, <<"">>,
       <<"Users records:", PyLen(users)>>,
       <<"Posts records:", PyLen(posts)>>,
       <<"Todos records:", PyLen(todos)>> >>
    \o (IF LogNonEmpty THEN << <<"">>, Warning >> ELSE << >>)
    \o << <<"">>, <<"Generated at:">>, <<"">>, <<"-- Automation Bot">> >>

\* Mutant: the second check tests only that the log file exists.
BuiltAttachmentsIfExists ==
    << REPORT_FILE >> \o (IF logExists THEN << LOG_FILE >> ELSE << >>)

BuiltAttachments ==
    << REPORT_FILE >> \o (IF LogNonEmpty THEN << LOG_FILE >> ELSE << >>)

\* Mutant: the log is opened with filemode="w" and starts every run empty.
LogAfterConfigTruncated == [exists |-> TRUE, prior |-> 0]

\* logging.basicConfig(filename=LOG_FILE): the file is opened in append mode
\* when the process starts, so it exists from then on and keeps its entries.
LogAfterConfig == [exists |-> TRUE, prior |-> logPrior + Len(logged)]

MainInit ==
    /\ pc = "idle" /\ run = 0
    /\ API_KEY = None /\ headers = {}
    /\ requests = << >> /\ res = NoResp
    /\ users = Unset /\ posts = Unset /\ todos = Unset
    /\ logExists \in BOOLEAN /\ logPrior = 0 /\ logged = << >>
    /\ wb = NoWorkbook /\ reportOnDisk = FALSE
    /\ body_lines = << >> /\ attachments = << >>
    /\ smtp = "none" /\ outbox = << >> /\ exitCode = -1

PipeIdle ==
    /\ p_pc = "off" /\ p_url = API1_URL /\ p_resp = NoResp /\ p_mapping = << >>
    /\ p_ret = Unset /\ p_raised = FALSE /\ p_log = << >>
    /\ p_ws = [rows |-> << >>, raised |-> FALSE]

StartRun ==
    /\ pc \in {"idle", "done", "crashed"}
    /\ run < MaxRuns
    /\ run' = run + 1
    /\ logExists' = LogAfterConfig.exists
    /\ logPrior' = LogAfterConfig.prior
    /\ logged' = << >>
    /\ \E key \in ApiKeys : API_KEY' = key /\ headers' = BuildHeaders(key)
    /\ requests' = << >> /\ res' = NoResp
    /\ users' = Unset /\ posts' = Unset /\ todos' = Unset
    /\ wb' = NoWorkbook
    /\ body_lines' = << >> /\ attachments' = << >>
    /\ smtp' = "none" /\ outbox' = << >> /\ exitCode' = -1
    /\ pc' = "fetch_users"
    /\ UNCHANGED <<reportOnDisk, pipeVars>>

\* One call of fetch_api_data from the main flow; an exception leaving it
\* would end the process with exit code 1.
FetchCall(url, r, next) ==
    /\ requests' = Append(requests, [url |-> url, headers |-> headers])
    /\ logged' = logged \o r.log
    /\ IF r.raised THEN pc' = "crashed" /\ exitCode' = 1
       ELSE pc' = next /\ exitCode' = exitCode
    /\ UNCHANGED <<run, API_KEY, headers, logExists, logPrior, wb, reportOnDisk,
                   body_lines, attachments, smtp, outbox, pipeVars>>

FetchUsers ==
    /\ pc = "fetch_users"
    /\ \E resp \in Responses :
          LET r == fetch_api_data(API1_URL, resp)
          IN  /\ res' = resp /\ users' = r.ret
              /\ FetchCall(API1_URL, r, "fetch_posts")
    /\ UNCHANGED <<posts, todos>>

FetchPosts ==
    /\ pc = "fetch_posts"
    /\ \E resp \in Responses :
          LET r == fetch_api_data(API2_URL, resp)
          IN  /\ res' = resp /\ posts' = r.ret
              /\ FetchCall(API2_URL, r, "fetch_todos")
    /\ UNCHANGED <<users, todos>>

FetchTodos ==
    /\ pc = "fetch_todos"
    /\ \E resp \in Responses :
          LET r == fetch_api_data(API3_URL, resp)
          IN  /\ res' = resp /\ todos' = r.ret
              /\ FetchCall(API3_URL, r, "build")
    /\ UNCHANGED <<users, posts>>

BuildReport ==
    /\ pc = "build"
    /\ LET r == create_report_excel(users, posts, todos)
       IN  IF r.raised
           THEN /\ pc' = "crashed" /\ exitCode' = 1
                /\ UNCHANGED <<wb, reportOnDisk>>
           ELSE /\ pc' = "compose" /\ exitCode' = exitCode
                /\ wb' = r.wb /\ reportOnDisk' = TRUE
    /\ res' = NoResp
    /\ UNCHANGED <<run, API_KEY, headers, requests, users, posts, todos, logExists,
                   logPrior, logged, body_lines, attachments, smtp, outbox, pipeVars>>

ComposeBody ==
    /\ pc = "compose"
    /\ body_lines' = ComposedBody
    /\ pc' = "attach"
    /\ UNCHANGED <<run, API_KEY, headers, requests, res, users, posts, todos,
                   logExists, logPrior, logged, wb, reportOnDisk, attachments,
                   smtp, outbox, exitCode, pipeVars>>

BuildAttachments ==
    /\ pc = "attach"
    /\ attachments' = BuiltAttachments
    /\ pc' = "send"
    /\ UNCHANGED <<run, API_KEY, headers, requests, res, users, posts, todos,
                   logExists, logPrior, logged, wb, reportOnDisk, body_lines,
                   smtp, outbox, exitCode, pipeVars>>

SendEmail ==
    /\ pc = "send"
    /\ \E outcome \in SmtpOutcomes :
          LET r == send_email_with_attachments(body_lines, attachments, FilesOnDisk, outcome)
          IN  /\ smtp' = outcome
              /\ outbox' = r.outbox
              /\ logged' = logged \o r.log
              /\ IF r.raised THEN pc' = "crashed" /\ exitCode' = 1
                 ELSE pc' = "finish" /\ exitCode' = exitCode
    /\ UNCHANGED <<run, API_KEY, headers, requests, res, users, posts, todos,
                   logExists, logPrior, wb, reportOnDisk, body_lines, attachments,
                   pipeVars>>

\* print("Job finished.") and the interpreter's normal exit.
Finish ==
    /\ pc = "finish"
    /\ pc' = "done" /\ exitCode' = 0
    /\ UNCHANGED <<run, API_KEY, headers, requests, res, users, posts, todos,
                   logExists, logPrior, logged, wb, reportOnDisk, body_lines,
                   attachments, smtp, outbox, pipeVars>>

\* Environment: the report file is removed from disk after it was saved and
\* before send_email_with_attachments looks for it (os.path.exists, line 155).
RemoveReport ==
    /\ pc \in {"compose", "attach", "send"}
    /\ reportOnDisk
    /\ reportOnDisk' = FALSE
    /\ UNCHANGED <<pc, run, API_KEY, headers, requests, res, users, posts, todos,
                   logExists, logPrior, logged, wb, body_lines, attachments,
                   smtp, outbox, exitCode, pipeVars>>

Init == MainInit /\ PipeIdle

Next ==
    \/ StartRun
    \/ FetchUsers
    \/ FetchPosts
    \/ FetchTodos
    \/ BuildReport
    \/ ComposeBody
    \/ BuildAttachments
    \/ SendEmail
    \/ Finish
    \/ RemoveReport

Spec == Init /\ [][Next]_vars

\* ------------------------------------------- fetch, then write one worksheet

SeqsUpTo(S, n) == UNION { [1..k -> S] : k \in 0..n }

PipeElems == { Dict(RecAnn), Dict(RecBob), Dict(RecNone), Int1 }

PipeBodies ==
    { List(s) : s \in SeqsUpTo(PipeElems, MaxItems) }
    \cup { Dict(RecAnn), Dict(RecBob), Null, Malformed }

PipeResponses ==
    { [transport |-> tr, status |-> 0, body |-> Malformed] :
          tr \in {"timeout", "connection_error"} }
    \cup { [transport |-> "ok", status |-> st, body |-> b] :
               st \in Statuses, b \in PipeBodies }

PipePairs == { <<"ID", "id">>, <<"Key", "id">>, <<"Name", "name">>, <<"Title", "title">> }

\* A field mapping is a dict: its keys (the headers) are distinct.
FieldMappings ==
    { m \in SeqsUpTo(PipePairs, MaxCols) :
          \A i, j \in DOMAIN m : i # j => m[i][1] # m[j][1] }

MainIdle == MainInit /\ logExists = FALSE

PipeInit ==
    /\ p_pc = "input"
    /\ p_url \in {API1_URL, API2_URL}
    /\ p_resp \in PipeResponses
    /\ p_mapping \in FieldMappings
    /\ p_ret = Unset /\ p_raised = FALSE /\ p_log = << >>
    /\ p_ws = [rows |-> << >>, raised |-> FALSE]

PipeFetch ==
    /\ p_pc = "input"
    /\ LET r == fetch_api_data(p_url, p_resp)
       IN  /\ p_ret' = r.ret
           /\ p_raised' = r.raised
           /\ p_log' = p_log \o r.log
           /\ p_pc' = IF r.raised THEN "raised" ELSE "fetched"
    /\ UNCHANGED <<p_url, p_resp, p_mapping, p_ws, mainVars>>

PipeWrite ==
    /\ p_pc = "fetched"
    /\ p_ws' = write_sheet_from_json(p_ret, p_mapping)
    /\ p_pc' = "written"
    /\ UNCHANGED <<p_url, p_resp, p_mapping, p_ret, p_raised, p_log, mainVars>>

InitPipe == MainIdle /\ PipeInit

NextPipe ==
    \/ PipeFetch
    \/ PipeWrite

SpecPipe == InitPipe /\ [][NextPipe]_vars

\* =================================================================== claims

Has(seq, x) == \E i \in DOMAIN seq : seq[i] = x

TransportFailed(r) == r.transport \in {"timeout", "connection_error"}

ParseFailed(r) == r.transport = "ok" /\ r.body.t = "malformed"

Non2xx(r) == r.transport = "ok" /\ ~(200 <= r.status /\ r.status < 300)

ErrorStatus(r) == r.transport = "ok" /\ 400 <= r.status /\ r.status < 600

Successful(r) == r.transport = "ok" /\ ~ErrorStatus(r) /\ r.body.t # "malformed"

PipeFetched == p_pc \in {"fetched", "written", "raised"}

FailureOutcome ==
    /\ p_ret = EmptyList
    /\ p_log = << log_error(ApiContext(p_url)) >>
    /\ ~p_raised /\ p_pc # "raised"

\* C1 as claimed: for every failure condition of one fetch_api_data call,
\* a non-2xx HTTP status included, the call returns an empty sequence, appends
\* exactly one Error Entry with context "API call failed for {url}" and raises
\* nothing.
C1_Original ==
    (PipeFetched /\ (TransportFailed(p_resp) \/ ParseFailed(p_resp) \/ Non2xx(p_resp)))
        => FailureOutcome

\* C1 amended: the same outcome for a transport error or timeout, a malformed
\* JSON body, and an HTTP status in 400..599 (the statuses raise_for_status
\* rejects); a 3xx response with a JSON body is returned as data.
C1_FetchFailure ==
    (PipeFetched /\ (TransportFailed(p_resp) \/ ParseFailed(p_resp) \/ ErrorStatus(p_resp)))
        => FailureOutcome

C1_Witness ==
    /\ p_pc = "fetched" /\ p_resp.transport = "ok" /\ p_resp.status = 200
    /\ p_resp.body = Malformed
    /\ p_ret = EmptyList /\ Len(p_log) = 1

\* C2 as claimed: no run aborts: whatever the three fetches returned, whether
\* the attachments are on disk and however SMTP fails, the run builds the
\* report, attempts the send, prints "Job finished." and exits 0.
C2_RunCompletes ==
    /\ pc # "crashed"
    /\ exitCode \in {-1, 0}
    /\ (pc = "done" => exitCode = 0 /\ wb # NoWorkbook /\ smtp # "none")

\* C3: when the message is handed to send_email_with_attachments, the log is
\* in the attachment list iff the warning line is in the body iff the log file
\* exists with size > 0; a delivered message carries the log iff its body
\* carries the warning.
C3_WarningIffAttached ==
    /\ (pc = "send" =>
           /\ (Has(attachments, LOG_FILE) <=> LogNonEmpty)
           /\ (Has(body_lines, Warning) <=> LogNonEmpty))
    /\ (outbox # << >> =>
           (Has(outbox[1].files, LOG_FILE) <=> Has(outbox[1].body, Warning)))

C3_Witness ==
    /\ pc = "finish" /\ outbox # << >> /\ logPrior = 0 /\ Len(logged) = 1
    /\ Has(outbox[1].files, LOG_FILE) /\ Has(outbox[1].body, Warning)

AllRecordLists == IsRecordList(users) /\ IsRecordList(posts) /\ IsRecordList(todos)

\* C4: for users, posts and todos that are sequences of Records, empty ones
\* included, create_report_excel raises nothing and the workbook has exactly the
\* worksheets Users, Posts, Todos in that order, each with its fixed header row
\* followed by one row per record (an empty source gives a header-only sheet).
C4_ThreeSheets ==
    /\ (wb # NoWorkbook =>
           /\ Len(wb) = 3
           /\ wb[1].title = "Users" /\ wb[2].title = "Posts" /\ wb[3].title = "Todos"
           /\ wb[1].rows[1] = <<"ID", "Name", "Username", "Email">>
           /\ wb[2].rows[1] = <<"ID", "User ID", "Title">>
           /\ wb[3].rows[1] = <<"ID", "User ID", "Title", "Completed">>
           /\ Len(wb[1].rows) = 1 + Len(users.v)
           /\ Len(wb[2].rows) = 1 + Len(posts.v)
           /\ Len(wb[3].rows) = 1 + Len(todos.v))
    /\ (pc \in {"compose", "attach", "send", "finish", "done"} => wb # NoWorkbook)
    /\ (pc = "crashed" => ~AllRecordLists)

C4_Witness ==
    /\ pc = "compose"
    /\ users = List(<< Dict(RecAnn) >>) /\ posts = EmptyList /\ todos = EmptyList
    /\ Len(wb) = 3
    /\ Len(wb[1].rows) = 2 /\ Len(wb[2].rows) = 1 /\ Len(wb[3].rows) = 1

Projection(rec, field_mapping, j) ==
    IF field_mapping[j][2] \in DOMAIN rec THEN rec[field_mapping[j][2]] ELSE None

\* C5: for a successful response whose body is a JSON array of Records, after
\* fetch_api_data and write_sheet_from_json the worksheet has one data row per
\* array element and data row i is the projection of element i.
C5_RowPerElement ==
    (p_pc = "written" /\ Successful(p_resp) /\ IsRecordList(p_resp.body)) =>
        /\ ~p_ws.raised
        /\ Len(p_ws.rows) = 1 + Len(p_resp.body.v)
        /\ \A i \in 1..Len(p_resp.body.v) :
              /\ Len(p_ws.rows[i + 1]) = Len(p_mapping)
              /\ \A j \in 1..Len(p_mapping) :
                    p_ws.rows[i + 1][j] = Projection(p_resp.body.v[i].v, p_mapping, j)

C5_Witness ==
    /\ p_pc = "written"
    /\ p_resp.transport = "ok" /\ p_resp.status = 200
    /\ p_resp.body = List(<< Dict(RecBob), Dict(RecAnn) >>)
    /\ p_mapping = << <<"Name", "name">>, <<"ID", "id">> >>
    /\ p_ws.rows = << <<"Name", "ID">>, <<"Bob", "2">>, <<"Ann", "1">> >>

\* C6: every row write_sheet_from_json writes, the header row and each data
\* row, has as many cells as the mapping has entries, the header row is the
\* mapping's headers in order, and for a sequence of Records every record gets
\* its row, with a blank cell where it lacks the mapped key, and nothing raised.
C6_RowWidth ==
    (p_pc = "written") =>
        /\ Len(p_ws.rows) >= 1
        /\ \A i \in DOMAIN p_ws.rows : Len(p_ws.rows[i]) = Len(p_mapping)
        /\ \A j \in 1..Len(p_mapping) : p_ws.rows[1][j] = p_mapping[j][1]
        /\ (IsRecordList(p_ret) =>
               /\ ~p_ws.raised
               /\ Len(p_ws.rows) = 1 + Len(p_ret.v)
               /\ \A i \in 1..Len(p_ret.v) : \A j \in 1..Len(p_mapping) :
                     p_mapping[j][2] \notin DOMAIN p_ret.v[i].v
                         => p_ws.rows[i + 1][j] = None)

C6_Witness ==
    /\ p_pc = "written"
    /\ p_ret = List(<< Dict(RecNone), Dict(RecAnn) >>)
    /\ p_mapping = << <<"ID", "id">>, <<"Name", "name">> >>
    /\ p_ws.rows = << <<"ID", "Name">>, <<None, None>>, <<"1", "Ann">> >>

\* C7 as claimed: for every successful response fetch_api_data returns a
\* sequence of Records; a JSON-object response gives the one-element sequence
\* holding the object.
C7_SequenceOfRecords ==
    (PipeFetched /\ Successful(p_resp)) =>
        /\ IsRecordList(p_ret)
        /\ (p_resp.body.t = "dict" => p_ret = List(<< p_resp.body >>))

EmailEntry == log_error(EmailContext)

\* C8: a send step always returns to the main flow; when any SMTP step fails
\* exactly one Error Entry with context "Email sending failed" is appended, and
\* on success none is; an attachment path that is not on disk adds no entry
\* and the delivered message holds the attachments that are on disk, in order.
C8_SendFailure ==
    [][(pc = "send" /\ pc' # "send") =>
          /\ pc' = "finish"
          /\ (smtp' # "ok" => logged' = Append(logged, EmailEntry))
          /\ (smtp' = "ok" => logged' = logged)
          /\ (smtp' \in {"ok", "quit"} =>
                 /\ Len(outbox') = 1
                 /\ outbox'[1].body = body_lines
                 /\ \A q \in {REPORT_FILE, LOG_FILE} :
                       Has(outbox'[1].files, q) <=> (Has(attachments, q) /\ OnDisk(q)))
          /\ (smtp' \notin {"ok", "quit"} => outbox' = << >>)]_vars

C8_Witness ==
    /\ pc = "finish" /\ smtp = "quit" /\ ~reportOnDisk
    /\ logPrior = 1 /\ logged = << EmailEntry >>
    /\ Len(outbox) = 1 /\ outbox[1].files = << LOG_FILE >>

Authorization(req) == { h \in req.headers : h[1] = "Authorization" }

\* C9 as claimed: API_KEY unset: no request carries an Authorization header;
\* API_KEY set to any value: every request carries Authorization: Bearer <value>.
C9_Original ==
    \A i \in DOMAIN requests :
        /\ (API_KEY = None => Authorization(requests[i]) = {})
        /\ (API_KEY # None =>
               Authorization(requests[i]) = { <<"Authorization", <<"Bearer", API_KEY>> >> })

\* C9 amended: API_KEY unset or empty: no request of the run carries an
\* Authorization header; API_KEY set to a non-empty value: every request
\* carries Authorization: Bearer <value>; a run that reaches the report build
\* has sent exactly three requests, one per source URL.
C9_BearerHeader ==
    /\ \A i \in DOMAIN requests :
          /\ (API_KEY \in {None, ""} => Authorization(requests[i]) = {})
          /\ (API_KEY \notin {None, ""} =>
                 Authorization(requests[i]) = { <<"Authorization", <<"Bearer", API_KEY>> >> })
    /\ (pc \in {"build", "compose", "attach", "send", "finish", "done"} =>
           /\ Len(requests) = 3
           /\ requests[1].url = API1_URL /\ requests[2].url = API2_URL
           /\ requests[3].url = API3_URL)

C9_Witness ==
    /\ pc = "build" /\ API_KEY = "secret" /\ Len(requests) = 3
    /\ \A i \in 1..3 : <<"Authorization", <<"Bearer", "secret">> >> \in requests[i].headers

\* C10: the error log is append-only across runs: no step removes the file or
\* lowers its entry count, and a run that started with entries left by an
\* earlier run puts the warning line in its body and the log in its attachment
\* list, even when it logged nothing itself.
C10_AppendOnly ==
    /\ [][LogSize' >= LogSize /\ (logExists => logExists')]_vars
    /\ [](((pc \in {"send", "finish", "done"}) /\ logPrior > 0) =>
              (Has(body_lines, Warning) /\ Has(attachments, LOG_FILE)))

C10_Witness ==
    /\ pc = "done" /\ run = 2 /\ logPrior = 1 /\ logged = << >>
    /\ outbox # << >>
    /\ Has(outbox[1].body, Warning) /\ Has(outbox[1].files, LOG_FILE)

====
